---- MODULE Spec2Model ----
(***************************************************************************)
(* A model of mystl::vector<T> (src/MySTL/vector.hpp).                     *)
(*                                                                         *)
(* A container is the triple of pointers elem_, free_, last_.  Pointers    *)
(* into a storage block are modelled as (block, offset): elem_ is the      *)
(* block identity (0 is the null pointer) and free_, last_ are the offsets *)
(* of the two other pointers from elem_, so size() = free_ - elem_ is the  *)
(* field free_ and capacity() = last_ - elem_ is the field last_.          *)
(* A storage block is a sequence of slots; a slot holds a constructed      *)
(* element or is uninitialized (Uninit).                                   *)
(*                                                                         *)
(* Every method is an operator from (heap, container, arguments) to a      *)
(* record [h, v, ret, err]: the heap and the container after the call, the *)
(* returned iterator (an offset) and the exception that left the call      *)
(* ("none" when it returned normally).                                     *)
(*                                                                         *)
(* Element operations that can throw are the copy constructions made by    *)
(* std::uninitialized_copy / std::uninitialized_fill; the argument `fail`  *)
(* of an operator is the ordinal of the copy that throws (0: none does).   *)
(* Move construction, move assignment and the construction of the one new  *)
(* element of push_back / emplace are taken to succeed.                    *)
(***************************************************************************)
EXTENDS Integers, Sequences, FiniteSets, TLC

\* ---------------------------------------------------------------- constants
FIRST_EXPAND_CAPACITY == 10
EXPAND_RATE == 2

\* size_type is unsigned: its arithmetic wraps.  The checker's integers are
\* 32 bits wide, so the modulus of std::size_t is scaled down to 2^30; every
\* value it produces that matters here exceeds MaxAlloc either way.
SizeModulus == 2 ^ 30

\* ------------------------------------------------------------------- bounds
\* the longest element sequence an operation is started on to grow
MaxLen == 3
\* the largest block (in elements) the allocator can supply
MaxAlloc == 20
\* the largest argument of reserve, of the count constructor and of resize
MaxReserve == 4
\* the number of push_back calls of the append-only run
MaxPush == 11
\* the longest element sequence of the program with two containers
PairLen == 2

Values == {1, 2}
\* the content of a slot that holds no constructed element
Uninit == 0
\* the two container objects of the program
Vecs == {"a", "b"}
\* addresses of storage blocks; 0 is nullptr
BlockIds == 1 .. 3

\* vecs: the pointers of each container; alive: the constructed containers;
\* heap: the storage blocks; nothrow_move: whether the element type is
\* nothrow move constructible; halted: the program ran into undefined
\* behaviour and is followed no further; last: the record of the last call
VARIABLES vecs, alive, heap, nothrow_move, halted, last

vars == <<vecs, alive, heap, nothrow_move, halted, last>>

\* ------------------------------------------------------------ storage blocks
\* F applied to the value of x: x is computed once, like a local variable
\* that is assigned the result of a call and then used several times
With(x, F(_)) == CHOOSE y \in {F(z) : z \in {x}} : TRUE

\* elem_ = free_ = last_ = nullptr
Null == [elem_ |-> 0, free_ |-> 0, last_ |-> 0]

EmptyHeap == [b \in BlockIds |-> [st |-> "free", slots |-> <<>>]]

FreeIds(h) == {b \in BlockIds : h[b].st = "free"}

\* alloc_.allocate(n): a block of n uninitialized slots at a fresh address,
\* or std::bad_alloc
allocate(h, n) ==
    IF n > MaxAlloc
    THEN [h |-> h, p |-> 0, err |-> "bad_alloc"]
    ELSE With(CHOOSE x \in FreeIds(h) : \A y \in FreeIds(h) : x <= y,
              LAMBDA b :
                [h |-> [h EXCEPT ![b] = [st |-> "live",
                                         slots |-> [i \in 1 .. n |-> Uninit]]],
                 p |-> b, err |-> "none"])

\* alloc_.deallocate(p, n); releasing a block that is not allocated is
\* recorded in the block ("dfree") instead of being lost
deallocate(h, p) ==
    With(h, LAMBDA g :
        IF g[p].st = "live"
        THEN [g EXCEPT ![p] = [st |-> "free", slots |-> <<>>]]
        ELSE [g EXCEPT ![p] = [st |-> "dfree", slots |-> <<>>]])

\* *(p + off) read; a slot outside the block holds nothing known
read(h, p, off) ==
    IF p # 0 /\ off >= 0 /\ off < Len(h[p].slots)
    THEN h[p].slots[off + 1]
    ELSE Uninit

\* alloc_.construct(p + off, value), placement new and *(p + off) = value;
\* a write outside the block is not kept
write(h, p, off, value) ==
    With(h, LAMBDA g :
        IF p # 0 /\ off >= 0 /\ off < Len(g[p].slots)
        THEN [g EXCEPT ![p].slots[off + 1] = value]
        ELSE g)

\* alloc_.destroy(p + off)
destroy(h, p, off) == write(h, p, off, Uninit)

Res(h, v, ret, err) == [h |-> h, v |-> v, ret |-> ret, err |-> err]

\* ------------------------------------------------------------------ getters
size(v) == v.free_

capacity(v) == v.last_

empty(v) == v.free_ = 0

\* the live elements [begin(), end()) in order
elems(h, v) == [i \in 1 .. v.free_ |-> read(h, v.elem_, i - 1)]

\* ------------------------------------------------------------ private part
\* destruct_elements(first, last): walks up from first until it meets last
RECURSIVE destruct_elements(_, _, _, _)
destruct_elements(h, p, first, lst) ==
    IF first = lst THEN h
    ELSE destruct_elements(destroy(h, p, first), p, first + 1, lst)

\* clear_elements that forgets to hand the block back
clear_elements_keeps_block(h, v) ==
    IF v.elem_ # 0
    THEN Res(destruct_elements(h, v.elem_, 0, v.free_), Null, 0, "none")
    ELSE Res(h, v, 0, "none")

clear_elements(h, v) ==
    IF v.elem_ # 0
    THEN Res(deallocate(destruct_elements(h, v.elem_, 0, v.free_), v.elem_),
             Null, 0, "none")
    ELSE Res(h, v, 0, "none")

\* std::uninitialized_copy(first, last, p) / std::uninitialized_fill: the
\* elements of src are copy constructed into the slots of p from offset 0;
\* when copy number fail throws, the copies made so far are destroyed again
RECURSIVE fill_slots(_, _, _, _)
fill_slots(h, p, src, k) ==
    IF k > Len(src) THEN h
    ELSE fill_slots(write(h, p, k - 1, src[k]), p, src, k + 1)

uninitialized_copy(h, p, src, fail) ==
    IF fail \in 1 .. Len(src)
    THEN [h |-> destruct_elements(
                    fill_slots(h, p, SubSeq(src, 1, fail - 1), 1),
                    p, 0, fail - 1),
          err |-> "copy_failed"]
    ELSE [h |-> fill_slots(h, p, src, 1), err |-> "none"]

\* expand_capacity keeping the new block when a copy throws
expand_capacity_keeps_block(h, v, new_capacity, fail) ==
    IF new_capacity <= capacity(v) THEN Res(h, v, 0, "none")
    ELSE With(allocate(h, new_capacity), LAMBDA a :
         IF a.err # "none" THEN Res(h, v, 0, a.err)
         ELSE With(IF nothrow_move
                   THEN [h |-> fill_slots(a.h, a.p, elems(h, v), 1),
                         err |-> "none"]
                   ELSE uninitialized_copy(a.h, a.p, elems(h, v), fail),
                   LAMBDA c :
              IF c.err # "none"
              THEN Res(c.h, v, 0, c.err)
              ELSE Res(clear_elements(c.h, v).h,
                       [elem_ |-> a.p, free_ |-> size(v),
                        last_ |-> new_capacity], 0, "none")))

expand_capacity(h, v, new_capacity, fail) ==
    IF new_capacity <= capacity(v) THEN Res(h, v, 0, "none")
    ELSE With(allocate(h, new_capacity), LAMBDA a :
         IF a.err # "none" THEN Res(h, v, 0, a.err)
         ELSE With(IF nothrow_move
                   THEN [h |-> fill_slots(a.h, a.p, elems(h, v), 1),
                         err |-> "none"]
                   ELSE uninitialized_copy(a.h, a.p, elems(h, v), fail),
                   LAMBDA c :
              IF c.err # "none"
              THEN Res(deallocate(c.h, a.p), v, 0, c.err)
              ELSE Res(clear_elements(c.h, v).h,
                       [elem_ |-> a.p, free_ |-> size(v),
                        last_ |-> new_capacity], 0, "none")))

\* check_expand_capacity growing one element before the block is full
check_expand_capacity_early(h, v, fail) ==
    IF v.free_ + 1 >= v.last_
    THEN LET new_capacity == IF empty(v) THEN FIRST_EXPAND_CAPACITY
                             ELSE size(v) * EXPAND_RATE
         IN  expand_capacity(h, v, new_capacity, fail)
    ELSE Res(h, v, 0, "none")

\* check_expand_capacity growing by one slot too many
check_expand_capacity_plus_one(h, v, fail) ==
    IF v.free_ = v.last_
    THEN LET new_capacity == IF empty(v) THEN FIRST_EXPAND_CAPACITY
                             ELSE size(v) * EXPAND_RATE + 1
         IN  expand_capacity(h, v, new_capacity, fail)
    ELSE Res(h, v, 0, "none")

check_expand_capacity(h, v, fail) ==
    IF v.free_ = v.last_
    THEN LET new_capacity == IF empty(v) THEN FIRST_EXPAND_CAPACITY
                             ELSE size(v) * EXPAND_RATE
         IN  expand_capacity(h, v, new_capacity, fail)
    ELSE Res(h, v, 0, "none")

\* create_elements(first, last), the range given as the sequence src
create_elements_range(h, v, src, fail) ==
    IF src = <<>> THEN Res(h, v, 0, "none")
    ELSE With(allocate(h, Len(src)), LAMBDA a :
         IF a.err # "none" THEN Res(h, v, 0, a.err)
         ELSE With(uninitialized_copy(a.h, a.p, src, fail), LAMBDA c :
              IF c.err # "none"
              THEN Res(deallocate(c.h, a.p), v, 0, c.err)
              ELSE Res(c.h, [elem_ |-> a.p, free_ |-> Len(src),
                             last_ |-> Len(src)], 0, "none")))

\* create_elements(n, value)
create_elements(h, v, n, value, fail) ==
    With(allocate(h, n), LAMBDA a :
    IF a.err # "none" THEN Res(h, v, 0, a.err)
    ELSE With(uninitialized_copy(a.h, a.p, [i \in 1 .. n |-> value], fail),
              LAMBDA c :
         IF c.err # "none"
         THEN Res(deallocate(c.h, a.p), v, 0, c.err)
         ELSE Res(c.h, [elem_ |-> a.p, free_ |-> n, last_ |-> n], 0, "none")))

\* ------------------------------------------------------------- public part
\* vector(): the members' default initialisers
vector_default(h) == Res(h, Null, 0, "none")

\* vector(n, value) and vector(n)
vector_count(h, n, value, fail) == create_elements(h, Null, n, value, fail)

\* vector(first, last), vector(initializer_list) and vector(const vector &)
vector_range(h, src, fail) == create_elements_range(h, Null, src, fail)

\* ~vector()
vector_destroy(h, v) == clear_elements(h, v)

clear(h, v) ==
    Res(destruct_elements(h, v.elem_, 0, v.free_), [v EXCEPT !.free_ = 0],
        0, "none")

\* assign(first, last) and assign(initializer_list)
assign_range(h, v, src, fail) ==
    With(clear_elements(h, v), LAMBDA c :
        create_elements_range(c.h, c.v, src, fail))

\* assign(n, value)
assign_count(h, v, n, value, fail) ==
    With(clear_elements(h, v), LAMBDA c :
        create_elements(c.h, c.v, n, value, fail))

push_back(h, v, value, fail) ==
    With(check_expand_capacity(h, v, fail), LAMBDA g :
        IF g.err # "none" THEN g
        ELSE Res(write(g.h, g.v.elem_, g.v.free_, value),
                 [g.v EXCEPT !.free_ = @ + 1], 0, "none"))

\* reserve growing geometrically like push_back
reserve_doubles(h, v, n, fail) ==
    expand_capacity(h, v,
                    IF n > capacity(v) /\ n < capacity(v) * EXPAND_RATE
                    THEN capacity(v) * EXPAND_RATE ELSE n, fail)

reserve(h, v, n, fail) == expand_capacity(h, v, n, fail)

\* operator[](n) and at(n): ret is the offset of the slot referred to
at(h, v, n) ==
    IF n < size(v) THEN Res(h, v, n, "none")
    ELSE Res(h, v, 0, "out_of_range")

\* front(): *begin()
front(h, v) ==
    IF v.elem_ # 0 THEN Res(h, v, 0, "none")
    ELSE Res(h, v, 0, "length_error")

\* back(): *rbegin(), the slot before free_
back(h, v) ==
    IF v.elem_ # 0 THEN Res(h, v, v.free_ - 1, "none")
    ELSE Res(h, v, 0, "length_error")

pop_back(h, v) ==
    With(IF ~empty(v)
         THEN Res(destroy(h, v.elem_, v.free_ - 1),
                  [v EXCEPT !.free_ = @ - 1], 0, "none")
         ELSE Res(h, v, 0, "none"),
         LAMBDA r : Res(r.h, r.v, 0, "length_error"))

\* the loop of emplace stopping one slot early
RECURSIVE shift_right_short(_, _, _, _)
shift_right_short(h, p, iter, pos) ==
    IF iter <= pos + 1 THEN h
    ELSE With(h, LAMBDA g :
         shift_right_short(write(g, p, iter, read(g, p, iter - 1)), p,
                           iter - 1, pos))

\* the loop of emplace: for (iter = free_ - 2; iter != pos; --iter)
RECURSIVE shift_right(_, _, _, _)
shift_right(h, p, iter, pos) ==
    IF iter = pos THEN h
    ELSE With(h, LAMBDA g :
         shift_right(write(g, p, iter, read(g, p, iter - 1)), p,
                     iter - 1, pos))

\* emplace(position, args...): position is an offset from begin()
emplace(h, v, position, value, fail) ==
    IF position < 0 \/ position > v.free_
    THEN Res(h, v, 0, "out_of_range")
    ELSE With(check_expand_capacity(h, v, fail), LAMBDA g :
         IF g.err # "none" THEN g
         ELSE LET diff == position
                  p == g.v.elem_
                  pos == diff
                  free1 == g.v.free_ + 1
              IN  IF pos = g.v.free_
                  THEN Res(write(g.h, p, g.v.free_, value),
                           [g.v EXCEPT !.free_ = @ + 1], g.v.free_, "none")
                  ELSE Res(write(shift_right(
                                   write(g.h, p, g.v.free_,
                                         read(g.h, p, g.v.free_ - 1)),
                                   p, free1 - 2, pos),
                                 p, pos, value),
                           [g.v EXCEPT !.free_ = free1], pos, "none"))

\* insert(position, value): copies value, then emplace
insert(h, v, position, value, fail) == emplace(h, v, position, value, fail)

\* the loop of insert(position, n, value)
RECURSIVE insert_n_loop(_, _, _, _, _, _, _)
insert_n_loop(h, v, pos, i, n, value, fail) ==
    IF i >= n THEN Res(h, v, pos, "none")
    ELSE With(insert(h, v, pos, value, fail), LAMBDA r :
         IF r.err # "none" THEN r
         ELSE insert_n_loop(r.h, r.v, r.ret, i + 1, n, value, fail))

insert_n(h, v, position, n, value, fail) ==
    IF n = 0 THEN Res(h, v, position, "none")
    ELSE insert_n_loop(h, v, position, 0, n, value, fail)

\* the loop of insert(position, first, last) without ++pos
RECURSIVE insert_range_loop_no_advance(_, _, _, _, _, _)
insert_range_loop_no_advance(h, v, pos, src, k, fail) ==
    IF k > Len(src) THEN Res(h, v, pos + Len(src), "none")
    ELSE With(insert(h, v, pos, src[k], fail), LAMBDA r :
         IF r.err # "none" THEN r
         ELSE insert_range_loop_no_advance(r.h, r.v, r.ret, src, k + 1, fail))

\* the loop of insert(position, first, last): k is the next element of src
RECURSIVE insert_range_loop(_, _, _, _, _, _)
insert_range_loop(h, v, pos, src, k, fail) ==
    IF k > Len(src) THEN Res(h, v, pos, "none")
    ELSE With(insert(h, v, pos, src[k], fail), LAMBDA r :
         IF r.err # "none" THEN r
         ELSE insert_range_loop(r.h, r.v, r.ret + 1, src, k + 1, fail))

insert_range(h, v, position, src, fail) ==
    IF src = <<>> THEN Res(h, v, position, "none")
    ELSE With(insert_range_loop(h, v, position, src, 1, fail), LAMBDA r :
         IF r.err # "none" THEN r
         ELSE Res(r.h, r.v, r.ret - Len(src), "none"))

\* std::move with a destination that does not advance
RECURSIVE move_range_stuck(_, _, _, _, _)
move_range_stuck(h, p, first, lst, d) ==
    IF first = lst THEN h
    ELSE With(h, LAMBDA g :
         move_range_stuck(write(g, p, d, read(g, p, first)), p, first + 1,
                          lst, d))

\* std::move(first, last, d_first): assigns front to back, one at a time
RECURSIVE move_range(_, _, _, _, _)
move_range(h, p, first, lst, d) ==
    IF first = lst THEN h
    ELSE With(h, LAMBDA g :
         move_range(write(g, p, d, read(g, p, first)), p, first + 1, lst,
                    d + 1))

\* erase(position)
erase(h, v, position) ==
    IF position < 0 \/ position >= v.free_
    THEN Res(h, v, 0, "out_of_range")
    ELSE Res(destroy(IF position + 1 # v.free_
                     THEN move_range(h, v.elem_, position + 1, v.free_,
                                     position)
                     ELSE h,
                     v.elem_, v.free_ - 1),
             [v EXCEPT !.free_ = @ - 1], position, "none")

\* the same move done as one block copy (the library's choice for trivially
\* copyable elements): every source is read from h0, the heap before the
\* move, before any slot is written
RECURSIVE memmove_range(_, _, _, _, _, _)
memmove_range(h0, h, p, first, lst, d) ==
    IF first = lst THEN h
    ELSE memmove_range(h0, write(h, p, d, read(h0, p, first)), p,
                       first + 1, lst, d + 1)

\* what a build does with erase(first, last) when std::move is called
\* outside its precondition (the destination is inside the source range).
\* With first > last, which passes the check at the top, destruct_elements
\* is also handed a start beyond its end: the call does not return
\* ("crash"), or it returns with free_ moved up and the elements copied one
\* at a time or as one block.  With first = last < end() every element from
\* first on is moved onto itself: one at a time this is the element type's
\* move assignment from itself, which may leave the element moved-from; as
\* one block it changes nothing.
UBOutcomes == {"crash", "loop_copy", "block_copy"}

\* the value of an element that was moved from
MovedFrom == 3

\* std::move(first, last, first) one element at a time, for an element type
\* whose move assignment does not expect its own object
RECURSIVE self_move_range(_, _, _, _)
self_move_range(h, p, first, lst) ==
    IF first = lst THEN h
    ELSE self_move_range(write(h, p, first, MovedFrom), p, first + 1, lst)

\* erase(first, last): first and lst are offsets from begin()
erase_range(h, v, first, lst, ub) ==
    IF ~(first >= 0 /\ lst <= v.free_)
    THEN Res(h, v, 0, "out_of_range")
    ELSE LET p == v.elem_
             iter == first + (v.free_ - lst)
         IN  IF first = lst /\ lst < v.free_ /\ ub = "loop_copy"
             THEN Res(self_move_range(h, p, lst, v.free_), v, first,
                      "undefined")
             ELSE IF first <= lst
             THEN Res(destruct_elements(move_range(h, p, lst, v.free_, first),
                                        p, iter, v.free_),
                      [v EXCEPT !.free_ = iter], first, "none")
             ELSE IF ub = "crash" THEN Res(h, v, 0, "crash")
             ELSE IF ub = "loop_copy"
             THEN Res(move_range(h, p, lst, v.free_, first),
                      [v EXCEPT !.free_ = iter], first, "undefined")
             ELSE Res(memmove_range(h, h, p, lst, v.free_, first),
                      [v EXCEPT !.free_ = iter], first, "undefined")

resize(h, v, new_size, value, fail) ==
    IF new_size < size(v)
    THEN With(erase_range(h, v, new_size, v.free_, "crash"), LAMBDA r :
         Res(r.h, r.v, 0, r.err))
    ELSE IF new_size > size(v)
    THEN With(insert_n(h, v, v.free_, (size(v) - new_size) % SizeModulus,
                       value, fail), LAMBDA r :
         Res(r.h, r.v, 0, r.err))
    ELSE Res(h, v, 0, "none")

\* shrink_to_fit done with expand_capacity, which only grows
shrink_to_fit_by_reserve(h, v, fail) == expand_capacity(h, v, size(v), fail)

\* shrink_to_fit(): auto other = *this; swap(other); other is destroyed
shrink_to_fit(h, v, fail) ==
    With(vector_range(h, elems(h, v), fail), LAMBDA other :
        IF other.err # "none" THEN Res(h, v, 0, other.err)
        ELSE Res(vector_destroy(other.h, v).h, other.v, 0, "none"))

Res2(h, v, o, err) == [h |-> h, v |-> v, o |-> o, ret |-> 0, err |-> err]

\* swap that leaves other its pointers
swap_one_way(h, v, o) == Res2(h, o, o, "none")

\* swap(other): the three pointers change places
swap(h, v, o) == Res2(h, o, v, "none")

\* vector(vector &&other)
vector_move(h, o) == swap(h, Null, o)

\* operator= that releases its own elements first and copies afterwards
operator_assign_clear_first(h, v, o, same, fail) ==
    With(clear_elements(h, v), LAMBDA c :
        With(create_elements_range(c.h, c.v,
                 IF same THEN elems(c.h, c.v) ELSE elems(h, o), fail),
             LAMBDA r : Res2(r.h, r.v, IF same THEN r.v ELSE o, r.err)))

\* operator= taking over other's pointers instead of copying its elements
operator_assign_shallow(h, v, o, same, fail) ==
    IF same THEN Res2(h, v, o, "none")
    ELSE Res2(clear_elements(h, v).h, o, o, "none")

\* operator=(const vector &other): auto copy = other; swap(copy); copy is
\* destroyed.  same says that other is *this.
operator_assign(h, v, o, same, fail) ==
    With(vector_range(h, elems(h, o), fail), LAMBDA copy :
        IF copy.err # "none" THEN Res2(h, v, o, copy.err)
        ELSE With(swap(copy.h, v, copy.v), LAMBDA s :
             Res2(vector_destroy(s.h, s.o).h, s.v,
                  IF same THEN s.v ELSE o, "none")))

\* operator=(vector &&other)
operator_assign_move(h, v, o, same) ==
    IF ~same
    THEN With(clear_elements(h, v), LAMBDA c : swap(c.h, c.v, o))
    ELSE Res2(h, v, o, "none")

\* -------------------------------------------------------------- comparisons
\* mystl::equal(first1, last1, first2): the elements of s equal those of t
\* at the same offsets
equal(s, t) == \A i \in 1 .. Len(s) : s[i] = t[i]

\* std::lexicographical_compare: the first offset at which the elements
\* differ decides; when one range ends first, the shorter range is less
RECURSIVE lexicographical_compare(_, _, _)
lexicographical_compare(s, t, k) ==
    IF k > Len(s) \/ k > Len(t) THEN k > Len(s) /\ k <= Len(t)
    ELSE IF s[k] < t[k] THEN TRUE
    ELSE IF t[k] < s[k] THEN FALSE
    ELSE lexicographical_compare(s, t, k + 1)

\* operator== without the comparison of the sizes
operator_eq_no_size(h, v, o, same) ==
    IF same THEN TRUE
    ELSE \A i \in 1 .. size(v) : read(h, v.elem_, i - 1) = read(h, o.elem_, i - 1)

\* operator==(other); same says that other is *this
operator_eq(h, v, o, same) ==
    IF same THEN TRUE
    ELSE IF size(v) # size(o) THEN FALSE
    ELSE equal(elems(h, v), elems(h, o))

operator_ne(h, v, o, same) == ~operator_eq(h, v, o, same)

operator_lt(h, v, o) == lexicographical_compare(elems(h, v), elems(h, o), 1)

operator_gt(h, v, o) == operator_lt(h, o, v)

operator_ge(h, v, o) == ~operator_lt(h, v, o)

operator_le(h, v, o) == ~operator_lt(h, o, v)

CompareOps == {"operator==", "operator!=", "operator<", "operator>",
               "operator>=", "operator<="}

\* v op other, the bool returned as 1 or 0
compare(op, h, v, o, same) ==
    LET b == CASE op = "operator==" -> operator_eq(h, v, o, same)
               [] op = "operator!=" -> operator_ne(h, v, o, same)
               [] op = "operator<" -> operator_lt(h, v, o)
               [] op = "operator>" -> operator_gt(h, v, o)
               [] op = "operator>=" -> operator_ge(h, v, o)
               [] op = "operator<=" -> operator_le(h, v, o)
    IN  [Res2(h, v, o, "none") EXCEPT !.ret = IF b THEN 1 ELSE 0]

\* ------------------------------------------------------------------ inputs
\* the ordinal of the element copy that throws; 0: no copy throws
Fails == {0, 1, 2}

\* the ranges and initializer lists handed to the container
Seqs == UNION {[1 .. n -> Values] : n \in 0 .. MaxLen}

\* the iterators handed to the container, as offsets from begin(): every
\* position of the container and one on either side of it; a container
\* without a block has the one position nullptr
Positions(v) == IF v.elem_ = 0 THEN {0} ELSE -1 .. size(v) + 1

\* --------------------------------------------------------------- the program
\* The record of the last call: the method, the container it was called on,
\* its arguments, what it returned or threw, and the ordinal of the
\* copy that was to throw, and the containers and the heap as they were
\* before the call.
Log(op, c, i, j, n, val, src, fail, r) ==
    [op |-> op, self |-> c, other |-> c, i |-> i, j |-> j, n |-> n,
     val |-> val, src |-> src, fail |-> fail, ret |-> r.ret, err |-> r.err,
     v0 |-> vecs, h0 |-> heap, a0 |-> alive]

NoCall == [op |-> "none", self |-> "a", other |-> "a", i |-> 0, j |-> 0, n |-> 0, val |-> 0,
           src |-> <<>>, fail |-> 0, ret |-> 0, err |-> "none",
           v0 |-> [c \in Vecs |-> Null], h0 |-> EmptyHeap, a0 |-> {}]

Init ==
    /\ vecs = [c \in Vecs |-> Null]
    /\ alive = {}
    /\ heap = EmptyHeap
    /\ nothrow_move \in BOOLEAN
    /\ halted = FALSE
    /\ last = NoCall

\* the call on container c ends with result r
Return(c, r, log) ==
    /\ vecs' = [vecs EXCEPT ![c] = r.v]
    /\ heap' = r.h
    /\ halted' = (r.err \in {"crash", "undefined"})
    /\ last' = log
    /\ UNCHANGED nothrow_move

\* a call can start: the program runs, the caller holds no result of an
\* earlier call, and the container is constructed
Idle == ~halted /\ last.op = "none"

Live(c) == Idle /\ c \in alive

\* the container is short enough for the operations whose arguments are
\* enumerated from its length
Short(c) == size(vecs[c]) <= MaxLen

\* a constructor that throws constructs no object
Constructed(c, r) ==
    alive' = IF r.err = "none" THEN alive \cup {c} ELSE alive

DefaultCtor(c) ==
    /\ Idle /\ c \notin alive
    /\ LET r == vector_default(heap)
       IN  Return(c, r, Log("vector", c, 0, 0, 0, 0, <<>>, 0, r))
           /\ Constructed(c, r)

CountCtor(c) ==
    /\ Idle /\ c \notin alive
    /\ \E n \in 0 .. MaxLen, value \in Values, fail \in Fails :
         LET r == vector_count(heap, n, value, fail)
         IN  Return(c, r, Log("vector_count", c, 0, 0, n, value, <<>>, fail, r))
             /\ Constructed(c, r)

RangeCtor(c) ==
    /\ Idle /\ c \notin alive
    /\ \E src \in Seqs, fail \in Fails :
         LET r == vector_range(heap, src, fail)
         IN  Return(c, r, Log("vector_range", c, 0, 0, 0, 0, src, fail, r))
             /\ Constructed(c, r)

Destroy(c) ==
    /\ Live(c)
    /\ LET r == vector_destroy(heap, vecs[c])
       IN  Return(c, r, Log("~vector", c, 0, 0, 0, 0, <<>>, 0, r))
    /\ alive' = alive \ {c}

Clear(c) ==
    /\ Live(c)
    /\ LET r == clear(heap, vecs[c])
       IN  Return(c, r, Log("clear", c, 0, 0, 0, 0, <<>>, 0, r))
    /\ UNCHANGED alive

AssignRange(c) ==
    /\ Live(c)
    /\ \E src \in Seqs, fail \in Fails :
         LET r == assign_range(heap, vecs[c], src, fail)
         IN  Return(c, r, Log("assign_range", c, 0, 0, 0, 0, src, fail, r))
    /\ UNCHANGED alive

AssignCount(c) ==
    /\ Live(c)
    /\ \E n \in 0 .. MaxLen, value \in Values, fail \in Fails :
         LET r == assign_count(heap, vecs[c], n, value, fail)
         IN  Return(c, r, Log("assign_count", c, 0, 0, n, value, <<>>, fail, r))
    /\ UNCHANGED alive

Resize(c) ==
    /\ Live(c) /\ Short(c)
    /\ \E n \in 0 .. MaxReserve, value \in Values, fail \in Fails :
         LET r == resize(heap, vecs[c], n, value, fail)
         IN  Return(c, r, Log("resize", c, 0, 0, n, value, <<>>, fail, r))
    /\ UNCHANGED alive

PushBack(c) ==
    /\ Live(c) /\ size(vecs[c]) < MaxLen
    /\ \E value \in Values, fail \in Fails :
         LET r == push_back(heap, vecs[c], value, fail)
         IN  Return(c, r, Log("push_back", c, 0, 0, 0, value, <<>>, fail, r))
    /\ UNCHANGED alive

ShrinkToFit(c) ==
    /\ Live(c) /\ Short(c)
    /\ \E fail \in Fails :
         LET r == shrink_to_fit(heap, vecs[c], fail)
         IN  Return(c, r, Log("shrink_to_fit", c, 0, 0, 0, 0, <<>>, fail, r))
    /\ UNCHANGED alive

Reserve(c) ==
    /\ Live(c) /\ Short(c)
    /\ \E n \in 0 .. MaxReserve, fail \in Fails :
         LET r == reserve(heap, vecs[c], n, fail)
         IN  Return(c, r, Log("reserve", c, 0, 0, n, 0, <<>>, fail, r))
    /\ UNCHANGED alive

\* operator[](n) and at(n)
At(c) ==
    /\ Live(c)
    /\ \E n \in 0 .. MaxLen + 1 :
         LET r == at(heap, vecs[c], n)
         IN  Return(c, r, Log("at", c, 0, 0, n, 0, <<>>, 0, r))
    /\ UNCHANGED alive

Front(c) ==
    /\ Live(c)
    /\ LET r == front(heap, vecs[c])
       IN  Return(c, r, Log("front", c, 0, 0, 0, 0, <<>>, 0, r))
    /\ UNCHANGED alive

Back(c) ==
    /\ Live(c)
    /\ LET r == back(heap, vecs[c])
       IN  Return(c, r, Log("back", c, 0, 0, 0, 0, <<>>, 0, r))
    /\ UNCHANGED alive

PopBack(c) ==
    /\ Live(c) /\ Short(c)
    /\ LET r == pop_back(heap, vecs[c])
       IN  Return(c, r, Log("pop_back", c, 0, 0, 0, 0, <<>>, 0, r))
    /\ UNCHANGED alive

Emplace(c) ==
    /\ Live(c) /\ size(vecs[c]) < MaxLen
    /\ \E i \in Positions(vecs[c]), value \in Values, fail \in Fails :
         LET r == emplace(heap, vecs[c], i, value, fail)
         IN  Return(c, r, Log("emplace", c, i, 0, 0, value, <<>>, fail, r))
    /\ UNCHANGED alive

Insert(c) ==
    /\ Live(c) /\ size(vecs[c]) < MaxLen
    /\ \E i \in Positions(vecs[c]), value \in Values, fail \in Fails :
         LET r == insert(heap, vecs[c], i, value, fail)
         IN  Return(c, r, Log("insert", c, i, 0, 0, value, <<>>, fail, r))
    /\ UNCHANGED alive

InsertN(c) ==
    /\ Live(c) /\ Short(c)
    /\ \E i \in Positions(vecs[c]), n \in 0 .. MaxLen - size(vecs[c]),
          value \in Values, fail \in Fails :
         LET r == insert_n(heap, vecs[c], i, n, value, fail)
         IN  Return(c, r, Log("insert_n", c, i, 0, n, value, <<>>, fail, r))
    /\ UNCHANGED alive

InsertRange(c) ==
    /\ Live(c) /\ Short(c)
    /\ \E i \in Positions(vecs[c]), src \in Seqs, fail \in Fails :
         /\ Len(src) <= MaxLen - size(vecs[c])
         /\ LET r == insert_range(heap, vecs[c], i, src, fail)
            IN  Return(c, r, Log("insert_range", c, i, 0, 0, 0, src, fail, r))
    /\ UNCHANGED alive

Erase(c) ==
    /\ Live(c) /\ Short(c)
    /\ \E i \in Positions(vecs[c]) :
         LET r == erase(heap, vecs[c], i)
         IN  Return(c, r, Log("erase", c, i, 0, 0, 0, <<>>, 0, r))
    /\ UNCHANGED alive

EraseRange(c) ==
    /\ Live(c) /\ Short(c)
    /\ \E i \in Positions(vecs[c]), j \in Positions(vecs[c]), ub \in UBOutcomes :
         LET r == erase_range(heap, vecs[c], i, j, ub)
         IN  Return(c, r, Log("erase_range", c, i, j, 0, 0, <<>>, 0, r))
    /\ UNCHANGED alive

\* the caller lets go of what the last call returned or threw, and of its
\* record of the state before the call
Discard ==
    /\ ~halted /\ last.op # "none"
    /\ last' = NoCall
    /\ UNCHANGED <<vecs, alive, heap, nothrow_move, halted>>

\* the program with the one container a
Next ==
    \/ Discard
    \/ \E c \in {"a"} :
        \/ DefaultCtor(c) \/ CountCtor(c) \/ RangeCtor(c) \/ Destroy(c)
        \/ Clear(c) \/ AssignRange(c) \/ AssignCount(c) \/ Resize(c)
        \/ PushBack(c) \/ ShrinkToFit(c) \/ Reserve(c)
        \/ At(c) \/ Front(c) \/ Back(c) \/ PopBack(c)
        \/ Emplace(c) \/ Insert(c) \/ InsertN(c) \/ InsertRange(c)
        \/ Erase(c) \/ EraseRange(c)

Spec == Init /\ [][Next]_vars

\* ------------------------------------------------- the append-only program
\* A default-constructed container and nothing but push_back calls on it.
\* The record of the last call counts the calls (n) and keeps the pushed
\* values in call order (src).  No element operation throws.
InitPush ==
    /\ vecs = [c \in Vecs |-> Null]
    /\ alive = {"a"}
    /\ heap = EmptyHeap
    /\ nothrow_move \in BOOLEAN
    /\ halted = FALSE
    /\ last = NoCall

PushOnly ==
    /\ last.n < MaxPush
    /\ \E value \in Values :
         LET r == push_back(heap, vecs["a"], value, 0)
         IN  Return("a", r, Log("push_back", "a", 0, 0, last.n + 1, value,
                                Append(last.src, value), 0, r))
    /\ UNCHANGED alive

NextPush == PushOnly

SpecPush == InitPush /\ [][NextPush]_vars

\* ------------------------------------------- the program with two containers
\* the call on container c with argument container o ends with result r
Return2(c, o, r, op, fail) ==
    /\ vecs' = [vecs EXCEPT ![c] = r.v, ![o] = r.o]
    /\ heap' = r.h
    /\ halted' = FALSE
    /\ last' = [Log(op, c, 0, 0, 0, 0, <<>>, fail, r) EXCEPT !.other = o]
    /\ UNCHANGED nothrow_move

\* vector c(o)
CopyCtor(c, o) ==
    /\ Idle /\ c \notin alive /\ o \in alive
    /\ \E fail \in Fails :
         LET r == vector_range(heap, elems(heap, vecs[o]), fail)
         IN  /\ Return2(c, o, Res2(r.h, r.v, vecs[o], r.err), "vector_copy", fail)
             /\ Constructed(c, r)

\* vector c(std::move(o))
MoveCtor(c, o) ==
    /\ Idle /\ c \notin alive /\ o \in alive
    /\ LET r == vector_move(heap, vecs[o])
       IN  Return2(c, o, r, "vector_move", 0) /\ Constructed(c, r)

\* c = o
CopyAssign(c, o) ==
    /\ Live(c) /\ o \in alive
    /\ \E fail \in Fails :
         LET r == operator_assign(heap, vecs[c], vecs[o], c = o, fail)
         IN  Return2(c, o, r, "operator=", fail)
    /\ UNCHANGED alive

\* c = std::move(o)
MoveAssign(c, o) ==
    /\ Live(c) /\ o \in alive
    /\ LET r == operator_assign_move(heap, vecs[c], vecs[o], c = o)
       IN  Return2(c, o, r, "operator=_move", 0)
    /\ UNCHANGED alive

\* c.swap(o)
Swap(c, o) ==
    /\ Live(c) /\ o \in alive
    /\ LET r == swap(heap, vecs[c], vecs[o])
       IN  Return2(c, o, r, "swap", 0)
    /\ UNCHANGED alive

\* the program with the two containers a and b
NextPair ==
    \/ Discard
    \/ \E c \in Vecs :
        \/ DefaultCtor(c) \/ Destroy(c) \/ Clear(c)
        \/ RangeCtor(c) /\ Len(last'.src) <= PairLen
        \/ PushBack(c) /\ size(vecs[c]) < PairLen
        \/ \E o \in Vecs :
            \/ CopyCtor(c, o) \/ MoveCtor(c, o)
            \/ CopyAssign(c, o) \/ MoveAssign(c, o) \/ Swap(c, o)

SpecPair == Init /\ [][NextPair]_vars

\* ------------------------------------- the program that allocates and frees
\* Two containers and every call that allocates, hands over or releases a
\* block.  What the elements are makes no difference to the blocks, so every
\* element of this program has the value 1.
Ones(s) == \A k \in 1 .. Len(s) : s[k] = 1

NextOwn ==
    \/ Discard
    \/ \E c \in Vecs :
        \/ DefaultCtor(c) \/ Destroy(c) \/ Clear(c) \/ ShrinkToFit(c)
        \/ RangeCtor(c) /\ Len(last'.src) <= PairLen /\ Ones(last'.src)
        \/ AssignRange(c) /\ Len(last'.src) <= PairLen /\ Ones(last'.src)
        \/ CountCtor(c) /\ last'.n <= PairLen /\ last'.val = 1
        \/ AssignCount(c) /\ last'.n <= PairLen /\ last'.val = 1
        \/ PushBack(c) /\ size(vecs[c]) < PairLen /\ last'.val = 1
        \/ Insert(c) /\ size(vecs[c]) < PairLen /\ last'.val = 1
        \/ Reserve(c) /\ last'.n <= PairLen + 1
        \/ \E o \in Vecs :
            \/ CopyCtor(c, o) \/ MoveCtor(c, o)
            \/ CopyAssign(c, o) \/ MoveAssign(c, o) \/ Swap(c, o)

SpecOwn == Init /\ [][NextOwn]_vars

\* --------------------------------------------- the program that copies
\* Container a is built from a range, b is a copy of a (or is assigned a),
\* and then either is mutated.  A call that ends with std::bad_alloc is the
\* last call of this program: it is not followed past running out of memory.
\* resize on a container of the copying program: to every smaller size, to
\* the same size and to one more; no element copy throws
ResizeShort(c) ==
    /\ Live(c) /\ size(vecs[c]) <= PairLen
    /\ \E n \in 0 .. size(vecs[c]) + 1, value \in Values :
         LET r == resize(heap, vecs[c], n, value, 0)
         IN  Return(c, r, Log("resize", c, 0, 0, n, value, <<>>, 0, r))
    /\ UNCHANGED alive

NextCopy ==
    \/ Discard /\ last.err # "bad_alloc"
    \/ RangeCtor("a") /\ Len(last'.src) <= PairLen
    \/ DefaultCtor("b")
    \/ \E c \in Vecs :
        \/ Destroy(c) \/ Clear(c) \/ Erase(c) \/ ResizeShort(c)
        \/ PushBack(c) /\ size(vecs[c]) < PairLen
        \/ Insert(c) /\ size(vecs[c]) < PairLen
        \/ AssignRange(c) /\ Len(last'.src) <= PairLen
        \/ \E o \in Vecs \ {c} : CopyCtor(c, o) \/ CopyAssign(c, o)

SpecCopy == Init /\ [][NextCopy]_vars

\* ------------------------------------------- the program that compares
\* c op o for one of the six comparison operators
Compare(c, o) ==
    /\ Live(c) /\ o \in alive
    /\ \E op \in CompareOps :
         Return2(c, o, compare(op, heap, vecs[c], vecs[o], c = o), op, 0)
    /\ UNCHANGED alive

\* two containers are built from ranges, shortened by erase, and compared
\* with each other and with themselves
NextCompare ==
    \/ Discard
    \/ \E c \in Vecs :
        \/ RangeCtor(c) \/ Destroy(c) \/ Erase(c)
        \/ \E o \in Vecs : Compare(c, o)

SpecCompare == Init /\ [][NextCompare]_vars

\* ------------------------------------------------------------------ claims
\* the container the last call was made on, before and after the call
PreVec == last.v0[last.self]

PreElems == elems(last.h0, PreVec)

NowVec == vecs[last.self]

NowElems == elems(heap, NowVec)

\* s with x put in front of its element at offset i
InsertedAt(s, i, x) == SubSeq(s, 1, i) \o <<x>> \o SubSeq(s, i + 1, Len(s))

\* s without its element at offset i
RemovedAt(s, i) == SubSeq(s, 1, i) \o SubSeq(s, i + 2, Len(s))

\* C1: from a default-constructed container, after k push_back calls size()
\* is k, the elements are the pushed values in call order, capacity() is one
\* of 0, 10, 20, 40, ..., and a push_back changes the capacity only when the
\* container was full: from 0 to 10, otherwise to twice what it was.
C1_PushBackSizeAndCapacity ==
    LET v == vecs["a"]
    IN  /\ size(v) = last.n
        /\ NowElems = last.src
        /\ capacity(v) \in {0} \cup {10 * 2 ^ k : k \in 0 .. 6}
        /\ last.op = "push_back" =>
             capacity(v) = IF size(PreVec) # capacity(PreVec) THEN capacity(PreVec)
                           ELSE IF capacity(PreVec) = 0 THEN 10
                           ELSE 2 * capacity(PreVec)

\* the push_back that doubles the capacity from 10 to 20
C1_Witness ==
    /\ last.op = "push_back" /\ last.n = 11
    /\ capacity(PreVec) = 10 /\ capacity(vecs["a"]) = 20
    /\ NowElems = last.src

\* C2: in every state 0 <= size() <= capacity() holds for every container.
C2_SizeWithinCapacity ==
    \A c \in Vecs : 0 <= size(vecs[c]) /\ size(vecs[c]) <= capacity(vecs[c])

\* C3: insert(begin() + i, x) and emplace(begin() + i, x) with 0 <= i <=
\* size() put x at offset i, keep the elements before i, move the others up
\* by one in order, make size() one larger and return begin() + i, whether
\* the call reallocates or not; only an invalid position is out of range.
C3_InsertPutsValueAtPosition ==
    last.op \in {"insert", "emplace"} =>
        /\ last.err = "out_of_range" <=> ~(0 <= last.i /\ last.i <= Len(PreElems))
        /\ last.err = "none" =>
            /\ NowElems = InsertedAt(PreElems, last.i, last.val)
            /\ size(NowVec) = Len(PreElems) + 1
            /\ last.ret = last.i
            /\ read(heap, NowVec.elem_, last.ret) = last.val

\* an insert in front of two elements of a full container, which reallocates
C3_Witness ==
    /\ last.op = "insert" /\ last.err = "none" /\ last.i = 0
    /\ size(PreVec) = 2 /\ capacity(PreVec) = 2
    /\ PreElems = <<1, 2>> /\ last.val = 2
    /\ NowVec.elem_ # PreVec.elem_
    /\ NowElems = <<2, 1, 2>>

\* C4: erase(begin() + i) with 0 <= i < size() removes the element at
\* offset i and nothing else, keeps the order of the others, makes size() one
\* smaller and returns begin() + i (end() when the last element went); only
\* an invalid position is out of range.
C4_EraseRemovesOneElement ==
    last.op = "erase" =>
        /\ last.err = "out_of_range" <=> ~(0 <= last.i /\ last.i < Len(PreElems))
        /\ last.err \in {"none", "out_of_range"}
        /\ last.err = "none" =>
            /\ NowElems = RemovedAt(PreElems, last.i)
            /\ size(NowVec) = Len(PreElems) - 1
            /\ last.ret = last.i
            /\ last.i = Len(PreElems) - 1 => last.ret = size(NowVec)

\* the first of three elements is erased
C4_Witness ==
    /\ last.op = "erase" /\ last.err = "none" /\ last.i = 0
    /\ PreElems = <<1, 2, 1>> /\ NowElems = <<2, 1>>

\* C5: pop_back reports the empty container only when size() is 0; on a
\* container with an element it removes the last element and nothing else,
\* leaves the capacity alone and returns normally.
C5_PopBackFailsOnlyWhenEmpty ==
    last.op = "pop_back" =>
        /\ last.err = "length_error" <=> size(PreVec) = 0
        /\ size(PreVec) >= 1 =>
            /\ NowElems = SubSeq(PreElems, 1, Len(PreElems) - 1)
            /\ capacity(NowVec) = capacity(PreVec)

\* C6: resize(n, x) leaves size() = n: the first n elements when n is
\* smaller, the old elements followed by n - size() copies of x when larger.
C6_ResizeGivesNewSize ==
    last.op = "resize" =>
        /\ last.err = "none"
        /\ size(NowVec) = last.n
        /\ NowElems = IF last.n <= Len(PreElems)
                      THEN SubSeq(PreElems, 1, last.n)
                      ELSE PreElems \o [k \in 1 .. last.n - Len(PreElems) |-> last.val]

\* C7: front() and back() fail on a container with size() = 0, at(i) and
\* operator[](i) fail when i >= size(), and an accessor that returns refers
\* to a slot of the live range.
C7_AccessorsFailOutsideLiveRange ==
    /\ last.op \in {"front", "back"} /\ size(PreVec) = 0 => last.err # "none"
    /\ last.op = "at" /\ last.n >= size(PreVec) => last.err = "out_of_range"
    /\ last.op \in {"front", "back", "at"} /\ last.err = "none" =>
         0 <= last.ret /\ last.ret < size(PreVec)

\* C8: erase(first, last) with a range that is not begin <= first <= last <=
\* end reports a failure and changes nothing.
C8_EraseRangeRejectsInvalidRange ==
    last.op = "erase_range"
      /\ ~(0 <= last.i /\ last.i <= last.j /\ last.j <= size(PreVec)) =>
        /\ last.err = "out_of_range"
        /\ NowVec = PreVec
        /\ heap = last.h0

\* push_back, emplace or insert on a full container, or reserve beyond the
\* capacity: the call relocates the elements
Relocates ==
    \/ /\ last.op = "push_back"
       /\ size(PreVec) = capacity(PreVec)
    \/ /\ last.op \in {"emplace", "insert"}
       /\ size(PreVec) = capacity(PreVec)
       /\ 0 <= last.i /\ last.i <= size(PreVec)
    \/ /\ last.op = "reserve"
       /\ last.n > capacity(PreVec)

\* C9: when a copy throws while a growth relocates the elements, the call
\* throws it on, and the container (size, capacity, block, elements) and the
\* heap are what they were before the call: the new block is released.
C9_FailedGrowthChangesNothing ==
    last.op \in {"push_back", "emplace", "insert", "reserve"} =>
        /\ last.err = "copy_failed" =>
            /\ NowVec = PreVec
            /\ NowElems = PreElems
            /\ heap = last.h0
        /\ Relocates /\ ~nothrow_move /\ last.fail \in 1 .. size(PreVec) =>
             last.err = "copy_failed"

\* the second copy of the relocation of an insert throws
C9_Witness ==
    /\ last.op = "insert" /\ last.err = "copy_failed" /\ last.fail = 2
    /\ size(PreVec) = 2 /\ capacity(PreVec) = 2
    /\ NowVec = PreVec /\ NowElems = <<1, 2>>

\* C10: a move construction from, and a move assignment from, another
\* container leave the source with size() = 0 and capacity() = 0 and the
\* destination with the source's elements, in the source's block; no two
\* containers ever refer to the same block.
C10_MoveLeavesSourceEmpty ==
    /\ \A c, d \in Vecs :
         c # d /\ vecs[c].elem_ # 0 => vecs[c].elem_ # vecs[d].elem_
    /\ last.op \in {"vector_move", "operator=_move"} /\ last.self # last.other =>
        /\ last.err = "none"
        /\ size(vecs[last.other]) = 0 /\ capacity(vecs[last.other]) = 0
        /\ vecs[last.other].elem_ = 0
        /\ NowElems = elems(last.h0, last.v0[last.other])
        /\ NowVec = last.v0[last.other]

\* a move assignment of two elements to a container that held one
C10_Witness ==
    /\ last.op = "operator=_move" /\ last.self # last.other
    /\ PreElems = <<1>>
    /\ elems(last.h0, last.v0[last.other]) = <<2, 1>>
    /\ NowElems = <<2, 1>>
    /\ vecs[last.other] = Null
    /\ heap[PreVec.elem_].st = "free"

\* the other container of the last call's program, before and after the call
OtherVec == vecs[last.other]

OtherPreElems == elems(last.h0, last.v0[last.other])

\* C11: a copy construction or copy assignment gives the destination the
\* source's size and elements in a block of its own and leaves the source as
\* it was; and no call on one container changes the size, the capacity, the
\* block or the elements of the other.
C11_CopyIsIndependent ==
    /\ last.op \in {"vector_copy", "operator="} /\ last.err = "none"
         /\ last.self # last.other =>
        /\ NowElems = OtherPreElems
        /\ size(NowVec) = size(last.v0[last.other])
        /\ NowVec.elem_ # 0 => NowVec.elem_ # OtherVec.elem_
        /\ NowVec.elem_ # 0 => heap[NowVec.elem_].st = "live"
    /\ last.op # "none" =>
         \A d \in last.a0 \ {last.self} :
            /\ vecs[d] = last.v0[d]
            /\ elems(heap, vecs[d]) = elems(last.h0, last.v0[d])

\* b holds the same element as a in another block, and an insert in front
\* of it reallocates b: a is as it was
C11_Witness ==
    /\ last.op = "insert" /\ last.self = "b" /\ last.err = "none"
    /\ "a" \in alive /\ vecs["a"].elem_ # 0
    /\ PreElems = <<1>> /\ elems(last.h0, last.v0["a"]) = <<1>>
    /\ PreVec.elem_ # last.v0["a"].elem_
    /\ NowElems = <<2, 1>> /\ elems(heap, vecs["a"]) = <<1>>
    /\ NowVec.elem_ # PreVec.elem_

\* the blocks that are allocated and the blocks the constructed containers hold
LiveBlocks == {b \in BlockIds : heap[b].st = "live"}

HeldBlocks == {vecs[c].elem_ : c \in alive} \ {0}

\* C12: c = c leaves c with the size and the elements it had and with
\* 0 <= size() <= capacity(); the block it held is released once and no block
\* is left without an owner; c = std::move(c) changes nothing.
C12_SelfAssignment ==
    last.self = last.other =>
        /\ last.op = "operator=" =>
            /\ size(NowVec) = size(PreVec)
            /\ NowElems = PreElems
            /\ 0 <= size(NowVec) /\ size(NowVec) <= capacity(NowVec)
            /\ \A b \in BlockIds : heap[b].st # "dfree"
            /\ LiveBlocks = HeldBlocks
            /\ PreVec.elem_ # 0 /\ NowVec.elem_ # PreVec.elem_ =>
                 heap[PreVec.elem_].st = "free"
        /\ last.op = "operator=_move" =>
            /\ last.err = "none"
            /\ NowVec = PreVec
            /\ heap = last.h0

\* c = c on a container with two elements in a block of ten: the copy is in
\* a new block of two and the old block is released
C12_Witness ==
    /\ last.op = "operator=" /\ last.self = last.other /\ last.err = "none"
    /\ PreElems = <<1, 2>> /\ capacity(PreVec) = 10
    /\ NowElems = <<1, 2>> /\ capacity(NowVec) = 2
    /\ NowVec.elem_ # PreVec.elem_
    /\ heap[PreVec.elem_].st = "free"

\* C13: a push_back, emplace or insert that finds size() = capacity() leaves
\* the capacity at the larger of 10 and twice the old size, however the
\* container was built.
C13_GrowthToTenOrTwiceSize ==
    last.op \in {"push_back", "emplace", "insert"} /\ last.err = "none"
      /\ size(PreVec) = capacity(PreVec) =>
        capacity(NowVec) =
            IF FIRST_EXPAND_CAPACITY >= size(PreVec) * EXPAND_RATE
            THEN FIRST_EXPAND_CAPACITY
            ELSE size(PreVec) * EXPAND_RATE

\* the last call returned the position it was given and changed nothing
ReturnedPositionUnchanged ==
    /\ last.err = "none"
    /\ last.ret = last.i
    /\ NowVec = PreVec
    /\ NowElems = PreElems

\* C14: insert(pos, 0, value), insert(pos, first, first) and erase(first,
\* first) at a valid position return the position they were given and leave
\* the size, the capacity, the block and the elements as they were.
C14_EmptyRangeChangesNothing ==
    /\ last.op = "insert_n" /\ last.n = 0 => ReturnedPositionUnchanged
    /\ last.op = "insert_range" /\ last.src = <<>> => ReturnedPositionUnchanged
    /\ last.op = "erase_range" /\ last.i = last.j
         /\ 0 <= last.i /\ last.i <= size(PreVec) => ReturnedPositionUnchanged

\* the elements of s and t are equal index by index and there are as many
SameElements(s, t) ==
    Len(s) = Len(t) /\ \A i \in 1 .. Len(s) : s[i] = t[i]

\* s comes before t in the lexicographic order: they agree on the first k
\* elements, and then s ends and t does not, or s has the smaller element
LexLess(s, t) ==
    \E k \in 0 .. Len(s) :
        /\ k <= Len(t)
        /\ \A i \in 1 .. k : s[i] = t[i]
        /\ \/ k = Len(s) /\ k < Len(t)
           \/ k < Len(s) /\ k < Len(t) /\ s[k + 1] < t[k + 1]

\* C15: a == b iff the sizes are the same and the elements are equal at
\* every index, a < b iff a is lexicographically smaller than b, the other
\* four operators are the negations and mirror images of these two, and
\* exactly one of a < b, a == b, a > b holds.
C15_ComparisonOperators ==
    last.op \in CompareOps =>
        LET a == elems(heap, vecs[last.self])
            b == elems(heap, vecs[last.other])
            r == last.ret = 1
        IN  /\ last.ret \in {0, 1} /\ last.err = "none"
            /\ last.op = "operator==" => (r <=> SameElements(a, b))
            /\ last.op = "operator!=" => (r <=> ~SameElements(a, b))
            /\ last.op = "operator<" => (r <=> LexLess(a, b))
            /\ last.op = "operator>" => (r <=> LexLess(b, a))
            /\ last.op = "operator<=" => (r <=> ~LexLess(b, a))
            /\ last.op = "operator>=" => (r <=> ~LexLess(a, b))
            /\ Cardinality({op \in {"operator<", "operator==", "operator>"} :
                    compare(op, heap, vecs[last.self], vecs[last.other],
                            last.self = last.other).ret = 1}) = 1
            /\ vecs = last.v0 /\ heap = last.h0

\* {1, 2} < {1, 2, 1}: a proper prefix is smaller
C15_Witness ==
    /\ last.op = "operator<" /\ last.ret = 1
    /\ PreElems = <<1, 2>> /\ OtherPreElems = <<1, 2, 1>>

\* the last call left the container its block and its capacity
SameBlock ==
    /\ NowVec.elem_ = PreVec.elem_
    /\ capacity(NowVec) = capacity(PreVec)
    /\ heap[PreVec.elem_].st = "live"
    /\ Len(heap[PreVec.elem_].slots) = Len(last.h0[PreVec.elem_].slots)

\* the elements at the offsets before i are what they were
KeptBefore(i) ==
    \A k \in 1 .. i :
        k <= Len(PreElems) => k <= Len(NowElems) /\ NowElems[k] = PreElems[k]

\* C16: clear(), erase(pos), erase(first, last), and push_back, emplace and
\* insert on a container with size() < capacity() leave the container its
\* block and its capacity and leave the elements before the position as
\* they were; clear() leaves size() = 0.
C16_NoReallocationWhenRoom ==
    /\ last.op = "clear" /\ PreVec.elem_ # 0 => SameBlock /\ size(NowVec) = 0
    /\ last.op = "clear" /\ PreVec.elem_ = 0 => NowVec = PreVec
    /\ last.op \in {"erase", "erase_range"} /\ PreVec.elem_ # 0 =>
         SameBlock /\ KeptBefore(last.i)
    /\ last.op \in {"push_back", "emplace", "insert"}
         /\ size(PreVec) < capacity(PreVec) =>
            /\ SameBlock
            /\ last.err \in {"none", "out_of_range"}
            /\ KeptBefore(IF last.op = "push_back" \/ last.err # "none"
                          THEN size(PreVec) ELSE last.i)

\* an insert in front of the second of two elements in a block of ten
C16_Witness ==
    /\ last.op = "insert" /\ last.err = "none" /\ last.i = 1
    /\ PreElems = <<1, 2>> /\ capacity(PreVec) = 10
    /\ NowElems = <<1, 1, 2>> /\ capacity(NowVec) = 10
    /\ NowVec.elem_ = PreVec.elem_

\* C17: reserve(n) with n <= capacity() changes nothing; reserve(n) with
\* n > capacity() either throws the exception of a failed element copy and
\* changes nothing, or leaves capacity() = n, size() and the elements as they
\* were, in a new block, the old block released.
C17_ReserveGrowsExactly ==
    last.op = "reserve" =>
        /\ last.n <= capacity(PreVec) =>
            /\ last.err = "none"
            /\ NowVec = PreVec /\ heap = last.h0
        /\ last.n > capacity(PreVec) =>
            /\ last.err = "none" <=>
                 (nothrow_move \/ last.fail \notin 1 .. size(PreVec))
            /\ last.err # "none" => NowVec = PreVec /\ heap = last.h0
            /\ last.err = "none" =>
                /\ capacity(NowVec) = last.n
                /\ size(NowVec) = size(PreVec)
                /\ NowElems = PreElems
                /\ NowVec.elem_ # 0 /\ NowVec.elem_ # PreVec.elem_
                /\ heap[NowVec.elem_].st = "live"
                /\ Len(heap[NowVec.elem_].slots) = last.n
                /\ PreVec.elem_ # 0 => heap[PreVec.elem_].st = "free"

\* reserve(4) on two elements in a block of two
C17_Witness ==
    /\ last.op = "reserve" /\ last.n = 4 /\ last.err = "none"
    /\ PreElems = <<2, 1>> /\ capacity(PreVec) = 2
    /\ NowElems = <<2, 1>> /\ capacity(NowVec) = 4
    /\ heap[PreVec.elem_].st = "free"

\* C18: after shrink_to_fit() capacity() = size() and the elements are what
\* they were; a container with size() = 0 is left without a block; when a
\* copy of an element throws, the container is as it was.
C18_ShrinkToFit ==
    last.op = "shrink_to_fit" =>
        /\ last.err = "none" <=> last.fail \notin 1 .. size(PreVec)
        /\ last.err # "none" => NowVec = PreVec /\ heap = last.h0
        /\ last.err = "none" =>
            /\ capacity(NowVec) = size(NowVec)
            /\ size(NowVec) = size(PreVec)
            /\ NowElems = PreElems
            /\ size(PreVec) = 0 => NowVec = Null
            /\ PreVec.elem_ # 0 => heap[PreVec.elem_].st = "free"
            /\ NowVec.elem_ # 0 => heap[NowVec.elem_].st = "live"

\* shrink_to_fit() on two elements in a block of ten
C18_Witness ==
    /\ last.op = "shrink_to_fit" /\ last.err = "none"
    /\ PreElems = <<1, 2>> /\ capacity(PreVec) = 10
    /\ NowElems = <<1, 2>> /\ capacity(NowVec) = 2
    /\ heap[PreVec.elem_].st = "free"

\* s with the elements of t put in front of its element at offset i
SplicedAt(s, i, t) == SubSeq(s, 1, i) \o t \o SubSeq(s, i + 1, Len(s))

\* C19: at a valid position i, insert(begin() + i, n, value) puts n copies of
\* value at the offsets i .. i + n - 1 and insert(begin() + i, first, last)
\* puts the k elements of the range there in their order; the old elements
\* keep their order around them, size() grows by n (by k), and the iterator
\* returned is begin() + i, whether or not an insertion reallocates.  The
\* call returns normally when no element copy throws.
C19_CountAndRangeInsert ==
    last.op \in {"insert_n", "insert_range"}
      /\ 0 <= last.i /\ last.i <= size(PreVec) =>
        LET t == IF last.op = "insert_n" THEN [k \in 1 .. last.n |-> last.val]
                 ELSE last.src
        IN  /\ last.fail = 0 => last.err = "none"
            /\ last.err = "none" =>
                /\ NowElems = SplicedAt(PreElems, last.i, t)
                /\ size(NowVec) = size(PreVec) + Len(t)
                /\ last.ret = last.i
                /\ \A k \in 1 .. Len(t) :
                     read(heap, NowVec.elem_, last.ret + k - 1) = t[k]

\* the range 2, 1 is inserted in front of the one element of a full
\* container: both insertions reallocate
C19_Witness ==
    /\ last.op = "insert_range" /\ last.err = "none" /\ last.i = 0
    /\ PreElems = <<1>> /\ capacity(PreVec) = 1 /\ last.src = <<2, 1>>
    /\ NowElems = <<2, 1, 1>> /\ capacity(NowVec) = 4
    /\ last.ret = 0

\* C20: every allocated block is held by exactly one constructed container,
\* every block a constructed container holds is allocated, no block was
\* released twice, and a container that is not constructed holds none.
C20_BlockOwnership ==
    /\ \A b \in BlockIds : heap[b].st # "dfree"
    /\ LiveBlocks = HeldBlocks
    /\ \A c, d \in alive :
         c # d /\ vecs[c].elem_ # 0 => vecs[c].elem_ # vecs[d].elem_
    /\ \A c \in Vecs \ alive : vecs[c] = Null
    /\ \A c \in alive :
         vecs[c].elem_ # 0 =>
            Len(heap[vecs[c].elem_].slots) = capacity(vecs[c])

\* a = b fails at the second element copy: the block of the temporary was
\* released, a and b hold the two blocks that are allocated
C20_Witness ==
    /\ last.op = "operator=" /\ last.err = "copy_failed" /\ last.fail = 2
    /\ last.self # last.other
    /\ alive = Vecs
    /\ vecs["a"].elem_ # 0 /\ vecs["b"].elem_ # 0
    /\ LiveBlocks = {vecs["a"].elem_, vecs["b"].elem_}
    /\ Cardinality(LiveBlocks) = 2

====
